---- MODULE Spec2Model ----
(***************************************************************************)
(* Model of baxter_interface/src/gripper_action/gripper_action.py:        *)
(* GripperActionServer, one goal handled by _on_gripper_action.           *)
(*                                                                         *)
(* Units.  Efforts and forces are integers in units of 0.00001, so that   *)
(* the 0.0001 threshold of line 128 is the integer 10 and 40.0 is         *)
(* 4000000.  Time is in units of 25 ms, so one period of the 20 Hz rate   *)
(* of line 147 is 2.  Positions are in the gripper's own units (0..100).  *)
(*                                                                         *)
(* The actuator (baxter_interface.Gripper), the action server and the     *)
(* configuration object are collaborators: the gripper's sensed state is  *)
(* changed by ActuatorUpdate at any moment (its subscriber thread), the   *)
(* preempt flag by PreemptRequest.  The clock advances in the rate sleep  *)
(* of line 182 only: the calls of one tick are taken to be instantaneous. *)
(***************************************************************************)
EXTENDS Integers, Sequences, FiniteSets, TLC

\* ---------------------------------------------------------------- bounds
\* Largest time since the start of a goal's loop the model lets the rate
\* sleep reach.
MaxTime == 4
\* Number of goals the client sends one after the other.
MaxGoals == 2
\* Number of times the configuration is changed.
MaxCfgChanges == 2

\* ------------------------------------------------------ program constants
E(x) == x * 100000

DefaultEffort == 4000000
EffortEps == 10
MaxEffortSentinel == -100000
MaxEffort == 10000000
InitTimeout == 200
TickPeriod == 2

\* --------------------------------------------------------- input domains
Types == {"electric", "suction"}
Positions == {0, 50}
Forces == {0, E(30)}
GoalPositions == {0, 50}
GoalEfforts == {0, E(-1), E(25)}
Goals == [position : GoalPositions, max_effort : GoalEfforts]

CfgTimeouts == {-40, 0, 3}
CfgDeadBands == {5, 60}
CfgMovingForces == {E(20), E(60)}

\* Parameters the gripper holds when the server is constructed.
GripperDefaults ==
    [dead_zone |-> 10, velocity |-> 50,
     moving_force |-> E(40), holding_force |-> E(30)]

ParamKeys == <<"timeout", "goal", "velocity", "moving_force", "holding_force">>
ParamFields ==
    <<"timeout", "dead_band", "velocity", "moving_force", "holding_force">>

Restrict(f, S) == [x \in S |-> f[x]]

FullConfigs ==
    {[timeout |-> t, goal |-> d, velocity |-> 70,
      moving_force |-> m, holding_force |-> 35] :
        t \in CfgTimeouts, d \in CfgDeadBands, m \in CfgMovingForces}

\* Configurations with one key absent.
PartialConfigs ==
    {Restrict(c, DOMAIN c \ {k}) :
        c \in {f \in FullConfigs : f.timeout = 3 /\ f.goal = 5
                                   /\ f.moving_force = E(60)},
        k \in {"timeout", "goal", "holding_force"}}

Configs == FullConfigs \cup PartialConfigs

Abs(x) == IF x < 0 THEN -x ELSE x

\* GripperCommandFeedback() / GripperCommandResult() as constructed.
EmptyFeedback ==
    [position |-> 0, effort |-> 0, stalled |-> FALSE, reached_goal |-> FALSE]
NoResult == [none |-> TRUE]

VARIABLES
    type,        \* self._type
    config,      \* self._param.config: key -> value, absent keys not in DOMAIN
    self,        \* self._timeout, _dead_band, _velocity, _moving_force, _holding_force
    feedback,    \* self._feedback
    aliased,     \* TRUE once self._result is the self._feedback object (line 122)
    gPos,        \* gripper.position()
    gForce,      \* gripper.force()
    gGripping,   \* gripper.gripping()
    gError,      \* gripper.error()
    gParams,     \* gripper.parameters()
    preempt,     \* server.is_preempt_requested()
    goal,        \* the goal delivered to _on_gripper_action
    position,    \* local position
    effort,      \* local effort
    start_time,  \* local start_time
    now,         \* rospy.get_time()
    pc,          \* control point of _on_gripper_action
    ufRet,       \* call site _update_feedback returns to
    outcomes,    \* terminal calls made on the server, in order
    mfArg,       \* arguments of set_moving_force calls, in order
    nCmd,        \* number of command_position calls
    nPub,        \* number of publish_feedback calls
    tick,        \* number of loop iterations begun
    fbTick,      \* tick in which self._feedback was last recomputed
    stopsInTick, \* stop() calls in the current tick
    preemptInTick, \* is_preempt_requested() as read in the current tick
    errorSeen,   \* gripper.error() as read at line 135
    checkHeld,   \* some evaluation of check_state at line 176 was true
    started,     \* start_time has been recorded (line 150)
    quiet,       \* since then the actuator never met a convergence condition
    gripAll,     \* the actuator reported gripping at every moment so far
    sinceCall,   \* whether anything _update_feedback reads has changed
                 \* since its previous call began
    tickLog,     \* what the current tick has done so far, in order
    gripperCalls, \* set_parameters / set_moving_force calls of the goal
    cfgReads,    \* the configuration as _get_gripper_parameters found it
    prevCfg,     \* cfgReads of the previous goal
    goalNo,      \* number of the current goal
    cfgChanges   \* number of configuration changes so far

vars == <<type, config, self, feedback, aliased, gPos, gForce, gGripping,
          gError, gParams, preempt, goal, position, effort, start_time, now,
          pc, ufRet, outcomes, mfArg, nCmd, nPub, tick, fbTick, stopsInTick,
          preemptInTick, errorSeen, checkHeld,
          started, quiet, gripAll, sinceCall, tickLog, gripperCalls,
          cfgReads, prevCfg, goalNo, cfgChanges>>

\* ------------------------------------------------------------ __init__
\* Lines 78-86: the held parameters after construction.
InitSelf(t) ==
    IF t = "electric"
    THEN [timeout |-> InitTimeout,
          dead_band |-> GripperDefaults.dead_zone,
          velocity |-> GripperDefaults.velocity,
          moving_force |-> GripperDefaults.moving_force,
          holding_force |-> GripperDefaults.holding_force]
    ELSE [timeout |-> InitTimeout]

Result == IF aliased THEN feedback ELSE EmptyFeedback

\* The actuator meets a convergence condition of the current goal: its
\* position is within the dead band, or its force exceeds the configured
\* moving force or the moving force the gripper currently holds.
ActuatorNear(p, f, params) ==
    \/ f > params.moving_force
    \/ /\ type = "electric"
       /\ \/ Abs(p - position) < self.dead_band
          \/ f > self.moving_force

\* The server after construction, with one goal delivered to it.
InitWith(configs, goals, errors) ==
    /\ type \in Types
    /\ config \in configs
    /\ self = InitSelf(type)
    /\ feedback = EmptyFeedback
    /\ aliased = FALSE
    /\ gPos = 0
    /\ gForce = 0
    /\ gGripping \in (IF type = "suction" THEN BOOLEAN ELSE {FALSE})
    /\ gError \in errors
    /\ gParams = GripperDefaults
    /\ preempt = FALSE
    /\ goal \in goals
    /\ position = 0
    /\ effort = 0
    /\ start_time = 0
    /\ now = 0
    /\ pc = "idle"
    /\ ufRet = "none"
    /\ outcomes = << >>
    /\ mfArg = << >>
    /\ nCmd = 0
    /\ nPub = 0
    /\ tick = 0
    /\ fbTick = 0
    /\ stopsInTick = 0
    /\ preemptInTick = FALSE
    /\ errorSeen = FALSE
    /\ checkHeld = FALSE
    /\ quiet = TRUE
    /\ started = FALSE
    /\ gripAll = gGripping
    /\ sinceCall = "none"
    /\ tickLog = << >>
    /\ gripperCalls = << >>
    /\ cfgReads = << >>
    /\ prevCfg = << >>
    /\ goalNo = 1
    /\ cfgChanges = 0

Init == InitWith(Configs, Goals, BOOLEAN)

\* The inputs of the effort resolution: values on both sides of each
\* comparison of lines 128 and 131.
EffortProbes ==
    {E(-2), E(-1) - 1, E(-1), E(-1) + 1, -11, -10, -9, -5, 0, 5, 9, 10, 11,
     E(25), E(40), E(100)}

InitEffort ==
    InitWith({c \in FullConfigs : c.timeout = 3 /\ c.goal = 5
                                  /\ c.moving_force = E(60)},
             [position : {50}, max_effort : EffortProbes],
             {FALSE})

\* ------------------------------------------------------- pure functions
\* ResolveEffort with every negative effort taken as the request for the
\* maximum.
ResolveEffortAnyNegative(max_effort) ==
    LET e1 == IF Abs(max_effort) < EffortEps THEN DefaultEffort ELSE max_effort
    IN  IF e1 < 0 THEN MaxEffort ELSE e1

\* Lines 126-132: the effort handed to set_moving_force.
ResolveEffort(max_effort) ==
    LET e1 == IF Abs(max_effort) < EffortEps THEN DefaultEffort ELSE max_effort
    IN  IF e1 = MaxEffortSentinel THEN MaxEffort ELSE e1

\* LoopCondition without the clause for a negative timeout.
LoopConditionBounded(elapsed, timeout) ==
    elapsed < timeout

\* Line 170: the while condition.
LoopCondition(elapsed, timeout) ==
    elapsed < timeout \/ timeout < 0

\* CheckState against the moving force held in self._moving_force.
CheckStateConfigured ==
    IF type = "electric"
    THEN \/ gForce > self.moving_force
         \/ Abs(gPos - position) < self.dead_band
    ELSE FALSE

\* Lines 159-166: check_state(); the suction branch is commented out, so
\* the function falls off its end and returns None, which is false.
CheckState ==
    IF type = "electric"
    THEN \/ gForce > gParams.moving_force
         \/ Abs(gPos - position) < self.dead_band
    ELSE FALSE

\* ReachedGoal without the fabs.
ReachedGoalSigned(p, target, dead_band) ==
    p - target < dead_band

\* Lines 118-119: the value assigned to reached_goal.
ReachedGoal(p, target, dead_band) ==
    Abs(p - target) < dead_band

\* ReadParameter keeping the timeout the server already holds.
ReadParameterKeepTimeout(s, i) ==
    IF ParamFields[i] = "timeout" THEN s
    ELSE [s EXCEPT ![ParamFields[i]] = config[ParamKeys[i]]]

\* One assignment of lines 92-97: the attribute takes the value the
\* configuration holds under its key at this moment.
ReadParameter(s, i) ==
    [s EXCEPT ![ParamFields[i]] = config[ParamKeys[i]]]

\* Lines 92-97: the assignments of _get_gripper_parameters in order, from
\* key number i on.  A key that is absent raises KeyError at its
\* assignment: the earlier assignments have been made, the later have not.
RECURSIVE PullParameters(_, _)
PullParameters(s, i) ==
    IF i > Len(ParamKeys) \/ (i > 1 /\ type # "electric")
    THEN [self |-> s, ok |-> TRUE]
    ELSE IF ParamKeys[i] \notin DOMAIN config
         THEN [self |-> s, ok |-> FALSE]
         ELSE PullParameters(ReadParameter(s, i), i + 1)

\* ParamUpdate with the dead band and the velocity exchanged.
ParamUpdateExchanged(s) ==
    [dead_zone |-> s.velocity, velocity |-> s.dead_band,
     moving_force |-> s.moving_force, holding_force |-> s.holding_force]

\* Lines 98-102: the dict handed to set_parameters.
ParamUpdate(s) ==
    [dead_zone |-> s.dead_band, velocity |-> s.velocity,
     moving_force |-> s.moving_force, holding_force |-> s.holding_force]

\* Gripper.set_parameters(parameters=update): the given entries replace
\* the gripper's.
SetParameters(params, update) ==
    [k \in DOMAIN params |->
        IF k \in DOMAIN update THEN update[k] ELSE params[k]]

\* Gripper.set_moving_force(force): force becomes the gripper's
\* moving_force parameter.
SetMovingForce(params, force) ==
    SetParameters(params, [moving_force |-> force])

\* EffortUpdate adding the force to the effort already in the message.
EffortAccumulate(fb, f) ==
    [fb EXCEPT !.effort = fb.effort + f]

\* Line 114: the assignment to feedback.effort.
EffortUpdate(fb, f) ==
    [fb EXCEPT !.effort = f]

\* TickTail with the publication before the command.
TickTailPublishFirst(target) ==
    << <<"publish", 0>>, <<"command", target>> >>

\* Lines 180-181: what a tick does after a failed check.
TickTail(target) ==
    << <<"command", target>>, <<"publish", 0>> >>

\* A terminal call on the server: which call, from which line, with
\* which result, at what time.
Outcome(kind, line, result) ==
    [kind |-> kind, line |-> line, result |-> result,
     at |-> now, started |-> started]

\* ------------------------------------------------------------- actions
ghosts == <<tick, fbTick, stopsInTick, preemptInTick, errorSeen, checkHeld,
            started, quiet, gripAll>>
sensed == <<gPos, gForce, gGripping, gError>>
inputs == <<type, config, goal>>
counts == <<mfArg, nCmd, nPub>>

\* Lines 125-132.
StartGoal ==
    /\ pc = "idle"
    /\ position' = goal.position
    /\ effort' = ResolveEffort(goal.max_effort)
    /\ pc' = "check_error"
    /\ UNCHANGED <<inputs, self, feedback, aliased, sensed, gParams, preempt,
                   start_time, now, ufRet, outcomes, counts, ghosts>>
    /\ UNCHANGED <<sinceCall, tickLog, gripperCalls, cfgReads, prevCfg, goalNo, cfgChanges>>

\* Lines 135-138: set_aborted() is called and the method goes on.
CheckError ==
    /\ pc = "check_error"
    /\ errorSeen' = gError
    /\ outcomes' = IF gError
                   THEN Append(outcomes, Outcome("aborted", 138, NoResult))
                   ELSE outcomes
    /\ pc' = "get_params"
    /\ UNCHANGED <<inputs, self, feedback, aliased, sensed, gParams, preempt,
                   position, effort, start_time, now, ufRet, counts, tick,
                   fbTick, stopsInTick, preemptInTick, checkHeld, started,
                   quiet, gripAll>>
    /\ UNCHANGED <<sinceCall, tickLog, gripperCalls, cfgReads, prevCfg, goalNo, cfgChanges>>

\* Lines 141, 91-103: _get_gripper_parameters(); a KeyError leaves the
\* method and _on_gripper_action, which has no handler.
GetGripperParameters ==
    /\ pc = "get_params"
    /\ LET r == PullParameters(self, 1)
       IN  /\ self' = r.self
           /\ IF r.ok
              THEN /\ gParams' = IF type = "electric"
                                 THEN SetParameters(gParams, ParamUpdate(r.self))
                                 ELSE gParams
                   /\ pc' = "uf_position"
                   /\ ufRet' = "start"
              ELSE /\ pc' = "raised"
                   /\ UNCHANGED <<gParams, ufRet>>
    /\ UNCHANGED <<inputs, feedback, aliased, sensed, preempt, position,
                   effort, start_time, now, outcomes, counts, ghosts>>
    /\ cfgReads' = Append(cfgReads, config)
    /\ gripperCalls' = IF PullParameters(self, 1).ok /\ type = "electric"
                       THEN Append(gripperCalls,
                                   <<"set_parameters",
                                     ParamUpdate(PullParameters(self, 1).self)>>)
                       ELSE gripperCalls
    /\ sinceCall' = "none"
    /\ UNCHANGED <<tickLog, prevCfg, goalNo, cfgChanges>>

\* Line 113.
UfPosition ==
    /\ pc = "uf_position"
    /\ feedback' = [feedback EXCEPT !.position = gPos]
    /\ pc' = "uf_effort"
    /\ UNCHANGED <<inputs, self, aliased, sensed, gParams, preempt, position,
                   effort, start_time, now, ufRet, outcomes, counts, ghosts>>
    /\ sinceCall' = IF sinceCall \in {"stable", "twice"}
                    THEN "second" ELSE "first"
    /\ UNCHANGED <<tickLog, gripperCalls, cfgReads, prevCfg, goalNo, cfgChanges>>

\* Line 114.
UfEffort ==
    /\ pc = "uf_effort"
    /\ feedback' = EffortUpdate(feedback, gForce)
    /\ pc' = "uf_stalled"
    /\ UNCHANGED <<inputs, self, aliased, sensed, gParams, preempt, position,
                   effort, start_time, now, ufRet, outcomes, counts, ghosts>>
    /\ UNCHANGED <<sinceCall, tickLog, gripperCalls, cfgReads, prevCfg, goalNo, cfgChanges>>

\* Lines 115-116.
UfStalled ==
    /\ pc = "uf_stalled"
    /\ feedback' = [feedback EXCEPT !.stalled = (gForce > gParams.moving_force)]
    /\ pc' = "uf_reached"
    /\ UNCHANGED <<inputs, self, aliased, sensed, gParams, preempt, position,
                   effort, start_time, now, ufRet, outcomes, counts, ghosts>>
    /\ UNCHANGED <<sinceCall, tickLog, gripperCalls, cfgReads, prevCfg, goalNo, cfgChanges>>

\* Lines 117-122: reached_goal is assigned for an electric gripper only;
\* for suction the value of gripping() is dropped.  self._result becomes
\* the feedback object itself.
UfReached ==
    /\ pc = "uf_reached"
    /\ feedback' = IF type = "electric"
                   THEN [feedback EXCEPT !.reached_goal =
                            ReachedGoal(gPos, position, self.dead_band)]
                   ELSE feedback
    /\ aliased' = TRUE
    /\ fbTick' = tick
    /\ pc' = CASE ufRet = "start" -> "record_start"
               [] ufRet = "loop" -> "check_state"
               [] ufRet = "final" -> "abort"
    /\ ufRet' = "none"
    /\ UNCHANGED <<inputs, self, sensed, gParams, preempt, position, effort,
                   start_time, now, outcomes, counts, tick, stopsInTick,
                   preemptInTick, errorSeen, checkHeld, started, quiet,
                   gripAll>>
    /\ sinceCall' = CASE sinceCall = "first" -> "stable"
                      [] sinceCall = "second" -> "twice"
                      [] OTHER -> "none"
    /\ tickLog' = IF ufRet = "loop"
                  THEN Append(tickLog, <<"feedback", 0>>) ELSE tickLog
    /\ UNCHANGED <<gripperCalls, cfgReads, prevCfg, goalNo, cfgChanges>>

\* Lines 147-154: the start time, and set_moving_force(effort), which
\* makes effort the gripper's moving_force parameter.
RecordStart ==
    /\ pc = "record_start"
    /\ start_time' = now
    /\ started' = TRUE
    /\ IF type = "electric"
       THEN /\ gParams' = SetMovingForce(gParams, effort)
            /\ mfArg' = Append(mfArg, effort)
       ELSE UNCHANGED <<gParams, mfArg>>
    /\ quiet' = ~ActuatorNear(gPos, gForce, gParams')
    /\ pc' = "loop"
    /\ UNCHANGED <<inputs, self, feedback, aliased, sensed, preempt, position,
                   effort, now, ufRet, outcomes, nCmd, nPub, tick, fbTick,
                   stopsInTick, preemptInTick, errorSeen, checkHeld, gripAll>>
    /\ gripperCalls' = IF type = "electric"
                       THEN Append(gripperCalls, <<"set_moving_force", effort>>)
                       ELSE gripperCalls
    /\ sinceCall' = IF gParams' = gParams THEN sinceCall ELSE "none"
    /\ UNCHANGED <<tickLog, cfgReads, prevCfg, goalNo, cfgChanges>>

\* Line 170.
LoopTest ==
    /\ pc = "loop"
    /\ IF LoopCondition(now - start_time, self.timeout)
       THEN /\ pc' = "preempt_check"
            /\ tick' = tick + 1
            /\ stopsInTick' = 0
            /\ preemptInTick' = FALSE
       ELSE /\ pc' = "fail"
            /\ UNCHANGED <<tick, stopsInTick, preemptInTick>>
    /\ UNCHANGED <<inputs, self, feedback, aliased, sensed, gParams, preempt,
                   position, effort, start_time, now, ufRet, outcomes, counts,
                   fbTick, errorSeen, checkHeld, started, quiet, gripAll>>
    /\ tickLog' = IF LoopCondition(now - start_time, self.timeout)
                  THEN << >> ELSE tickLog
    /\ UNCHANGED <<sinceCall, gripperCalls, cfgReads, prevCfg, goalNo, cfgChanges>>

\* Lines 171-175: stop() on a preempt request, then on to _update_feedback.
PreemptCheck ==
    /\ pc = "preempt_check"
    /\ preemptInTick' = preempt
    /\ stopsInTick' = IF preempt THEN stopsInTick + 1 ELSE stopsInTick
    /\ pc' = "uf_position"
    /\ ufRet' = "loop"
    /\ UNCHANGED <<inputs, self, feedback, aliased, sensed, gParams, preempt,
                   position, effort, start_time, now, outcomes, counts, tick,
                   fbTick, errorSeen, checkHeld, started, quiet, gripAll>>
    /\ tickLog' = IF preempt THEN Append(tickLog, <<"stop", 0>>) ELSE tickLog
    /\ UNCHANGED <<sinceCall, gripperCalls, cfgReads, prevCfg, goalNo, cfgChanges>>

\* Line 179 without the return: the tick goes on to line 180.
SucceededFallsThrough == "command"

\* Line 179: the return after set_succeeded ends the method.
SucceededNext == "done"

\* Lines 176-179.
CheckStateStep ==
    /\ pc = "check_state"
    /\ checkHeld' = (checkHeld \/ CheckState)
    /\ IF CheckState
       THEN /\ outcomes' = Append(outcomes, Outcome("succeeded", 177, Result))
            /\ pc' = SucceededNext
       ELSE /\ pc' = "command"
            /\ UNCHANGED outcomes
    /\ UNCHANGED <<inputs, self, feedback, aliased, sensed, gParams, preempt,
                   position, effort, start_time, now, ufRet, counts, tick,
                   fbTick, stopsInTick, preemptInTick, errorSeen, started,
                   quiet, gripAll>>
    /\ tickLog' = Append(tickLog, <<"check", 0>>)
    /\ UNCHANGED <<sinceCall, gripperCalls, cfgReads, prevCfg, goalNo, cfgChanges>>

\* Lines 180-181.
CommandAndPublish ==
    /\ pc = "command"
    /\ nCmd' = nCmd + 1
    /\ nPub' = nPub + 1
    /\ pc' = "sleep"
    /\ UNCHANGED <<inputs, self, feedback, aliased, sensed, gParams, preempt,
                   position, effort, start_time, now, ufRet, outcomes, mfArg,
                   ghosts>>
    /\ tickLog' = tickLog \o TickTail(position)
    /\ UNCHANGED <<sinceCall, gripperCalls, cfgReads, prevCfg, goalNo, cfgChanges>>

\* Line 182: control_rate.sleep() returns one period later.
RateSleep ==
    /\ pc = "sleep"
    /\ now - start_time + TickPeriod <= MaxTime
    /\ now' = now + TickPeriod
    /\ pc' = "loop"
    /\ UNCHANGED <<inputs, self, feedback, aliased, sensed, gParams, preempt,
                   position, effort, start_time, ufRet, outcomes, counts,
                   ghosts>>
    /\ tickLog' = Append(tickLog, <<"sleep", 0>>)
    /\ UNCHANGED <<sinceCall, gripperCalls, cfgReads, prevCfg, goalNo, cfgChanges>>

\* Lines 185-188: success is False whenever this point is reached.
Fail ==
    /\ pc = "fail"
    /\ pc' = "uf_position"
    /\ ufRet' = "final"
    /\ UNCHANGED <<inputs, self, feedback, aliased, sensed, gParams, preempt,
                   position, effort, start_time, now, outcomes, counts,
                   ghosts>>
    /\ UNCHANGED <<sinceCall, tickLog, gripperCalls, cfgReads, prevCfg, goalNo, cfgChanges>>

\* Line 189.
Abort ==
    /\ pc = "abort"
    /\ outcomes' = Append(outcomes, Outcome("aborted", 189, Result))
    /\ pc' = "done"
    /\ UNCHANGED <<inputs, self, feedback, aliased, sensed, gParams, preempt,
                   position, effort, start_time, now, ufRet, counts, ghosts>>
    /\ UNCHANGED <<sinceCall, tickLog, gripperCalls, cfgReads, prevCfg, goalNo, cfgChanges>>

Running == pc \notin {"idle", "done", "raised"}

\* The gripper's state topic delivers a new state.
ActuatorUpdate ==
    /\ Running
    /\ \E p \in Positions, f \in Forces,
          g \in (IF type = "suction" THEN BOOLEAN ELSE {gGripping}) :
        /\ <<p, f, g>> # <<gPos, gForce, gGripping>>
        /\ gPos' = p
        /\ gForce' = f
        /\ gGripping' = g
        /\ quiet' = IF started
                    THEN quiet /\ ~ActuatorNear(p, f, gParams) ELSE quiet
        /\ gripAll' = (gripAll /\ g)
    /\ UNCHANGED <<inputs, self, feedback, aliased, gError, gParams, preempt,
                   position, effort, start_time, now, pc, ufRet, outcomes,
                   counts, tick, fbTick, stopsInTick, preemptInTick,
                   errorSeen, checkHeld, started>>
    /\ sinceCall' = "none"
    /\ UNCHANGED <<tickLog, gripperCalls, cfgReads, prevCfg, goalNo, cfgChanges>>

\* The client cancels the goal; the request stays set.
PreemptRequest ==
    /\ Running
    /\ ~preempt
    /\ preempt' = TRUE
    /\ UNCHANGED <<inputs, self, feedback, aliased, sensed, gParams, position,
                   effort, start_time, now, pc, ufRet, outcomes, counts,
                   ghosts>>
    /\ UNCHANGED <<sinceCall, tickLog, gripperCalls, cfgReads, prevCfg, goalNo, cfgChanges>>

Next ==
    \/ StartGoal
    \/ CheckError
    \/ GetGripperParameters
    \/ UfPosition
    \/ UfEffort
    \/ UfStalled
    \/ UfReached
    \/ RecordStart
    \/ LoopTest
    \/ PreemptCheck
    \/ CheckStateStep
    \/ CommandAndPublish
    \/ RateSleep
    \/ Fail
    \/ Abort
    \/ ActuatorUpdate
    \/ PreemptRequest

Spec == Init /\ [][Next]_vars

\* The goals a client sends after the first one.
FurtherGoals == [position : GoalPositions, max_effort : {0}]

\* The configurations a reconfiguration request chooses from.
ChangedConfigs ==
    {c \in FullConfigs : c.timeout \in {0, 3} /\ c.moving_force = E(60)}

\* The action server delivers the next goal once _on_gripper_action has
\* returned (or raised): a new call of the method on the same object.
NewGoal ==
    /\ pc \in {"done", "raised"}
    /\ goalNo < MaxGoals
    /\ goalNo' = goalNo + 1
    /\ goal' \in FurtherGoals
    /\ pc' = "idle"
    /\ ufRet' = "none"
    /\ preempt' = FALSE
    /\ outcomes' = << >>
    /\ mfArg' = << >>
    /\ nCmd' = 0
    /\ nPub' = 0
    /\ tick' = 0
    /\ fbTick' = 0
    /\ stopsInTick' = 0
    /\ preemptInTick' = FALSE
    /\ errorSeen' = FALSE
    /\ checkHeld' = FALSE
    /\ started' = FALSE
    /\ quiet' = TRUE
    /\ gripAll' = gGripping
    /\ sinceCall' = "none"
    /\ tickLog' = << >>
    /\ gripperCalls' = << >>
    /\ prevCfg' = cfgReads
    /\ cfgReads' = << >>
    /\ UNCHANGED <<type, config, self, feedback, aliased, sensed, gParams,
                   position, effort, start_time, now, cfgChanges>>

\* A reconfiguration request replaces self._param.config, at any moment.
ConfigChange ==
    /\ cfgChanges < MaxCfgChanges
    /\ cfgChanges' = cfgChanges + 1
    /\ config' \in ChangedConfigs \ {config}
    /\ UNCHANGED <<type, goal, self, feedback, aliased, sensed, gParams,
                   preempt, position, effort, start_time, now, pc, ufRet,
                   outcomes, counts, ghosts, sinceCall, tickLog, gripperCalls,
                   cfgReads, prevCfg, goalNo>>

NextGoals ==
    \/ Next
    \/ NewGoal
    \/ ConfigChange

InitGoals ==
    /\ InitWith(ChangedConfigs, FurtherGoals, {FALSE})
    /\ type = "electric"

\* The steps of the handler's own thread: _on_gripper_action runs in the
\* action server's execute thread, which goes on as long as the calls it
\* makes return.
Handler ==
    \/ StartGoal
    \/ CheckError
    \/ GetGripperParameters
    \/ UfPosition
    \/ UfEffort
    \/ UfStalled
    \/ UfReached
    \/ RecordStart
    \/ LoopTest
    \/ PreemptCheck
    \/ CheckStateStep
    \/ CommandAndPublish
    \/ RateSleep
    \/ Fail
    \/ Abort

\* The handler under the assumption that the clock advances and every call
\* of a tick, the rate sleep included, returns.
SpecLive == Init /\ [][Next]_vars /\ WF_vars(Handler)


\* A sequence of goals with configuration changes between and during them.
SpecGoals == InitGoals /\ [][NextGoals]_vars

SpecEffort == InitEffort /\ [][Next]_vars

TypeOK ==
    /\ type \in Types
    /\ pc \in {"idle", "check_error", "get_params", "uf_position", "uf_effort",
               "uf_stalled", "uf_reached", "record_start", "loop",
               "preempt_check", "check_state", "command", "sleep", "fail",
               "abort", "done", "raised"}
    /\ Len(outcomes) <= 2

\* ============================================================== claims
Has(kind) == \E i \in 1..Len(outcomes) : outcomes[i].kind = kind
HasLine(line) == \E i \in 1..Len(outcomes) : outcomes[i].line = line
Last == outcomes[Len(outcomes)]

\* The policy of the specification for the effective effort, in the
\* model's units: 40.0 below 0.0001 in magnitude, 100.0 for -1.0, else
\* the value given.
EffectiveEffort(max_effort) ==
    IF Abs(max_effort) < 10 THEN E(40)
    ELSE IF max_effort = E(-1) THEN E(100)
    ELSE max_effort

\* The keys _get_gripper_parameters asks for.
RequestedKeys ==
    IF type = "electric"
    THEN {"timeout", "goal", "velocity", "moving_force", "holding_force"}
    ELSE {"timeout"}

\* C1: a run of _on_gripper_action makes exactly one terminal call
\* (set_succeeded or set_aborted) on the action server: never two or
\* more, and exactly one once it has returned.
C1_ExactlyOneOutcome ==
    /\ Len(outcomes) <= 1
    /\ pc = "done" => Len(outcomes) = 1

\* C2: if error() was true at the precondition check, set_succeeded is
\* never called for the goal.
C2_ErrorNeverSucceeds ==
    errorSeen => ~Has("succeeded")

\* C3 as stated: at every evaluation of check_state for an electric
\* gripper, the goal is judged converged exactly when the force exceeds
\* the moving force resolved from configuration or the position is within
\* the configured dead band of the target.
C3_ConfiguredMovingForce ==
    [][(pc = "check_state" /\ pc' # "check_state" /\ type = "electric")
        => ((pc' = "done" /\ Has("succeeded")')
            <=> (\/ gForce > config["moving_force"]
                 \/ Abs(gPos - goal.position) < config["goal"]))]_vars

\* C3 amended: at every evaluation of check_state for an electric gripper,
\* the goal is judged converged exactly when the force exceeds the goal's
\* effective effort (which set_moving_force made the gripper's moving
\* force) or the position is within the configured dead band of the
\* target.
C3_EffortIsThreshold ==
    [][(pc = "check_state" /\ pc' # "check_state" /\ type = "electric")
        => ((pc' = "done" /\ Has("succeeded")')
            <=> (\/ gForce > EffectiveEffort(goal.max_effort)
                 \/ Abs(gPos - goal.position) < config["goal"]))]_vars

\* A goal that succeeded on force alone: the position is outside the dead
\* band, the force is above the effective effort and not above the
\* configured moving force.
C3_Witness ==
    /\ pc = "done"
    /\ type = "electric"
    /\ Last.kind = "succeeded"
    /\ Abs(gPos - goal.position) >= config["goal"]
    /\ gForce > EffectiveEffort(goal.max_effort)
    /\ gForce <= config["moving_force"]

\* C4: once set_succeeded has been called there is no further position
\* command, feedback publication or terminal call; the result it carried
\* is the snapshot computed in that very tick, and that tick is the first
\* whose check held: every earlier tick commanded and published once, so
\* a success on the first tick comes with no command and no publication.
C4_SucceededEndsRun ==
    /\ [][Has("succeeded") => UNCHANGED <<outcomes, nCmd, nPub>>]_vars
    /\ [](Has("succeeded") =>
            /\ Last.kind = "succeeded"
            /\ Last.result = feedback
            /\ fbTick = tick
            /\ nCmd = tick - 1
            /\ nPub = tick - 1)

\* A goal that succeeded on its second tick, after one command.
C4_Witness ==
    /\ pc = "done"
    /\ Last.kind = "succeeded"
    /\ tick = 2
    /\ nCmd = 1
    /\ nPub = 1

\* C5: for an electric gripper, a timeout >= 0 and an actuator that never
\* meets a convergence condition, every set_aborted call is made with the
\* elapsed time in [timeout, timeout + one period] and carries a result
\* with reached_goal false, and the run ends aborted.
C5_TimeoutAbort ==
    (/\ type = "electric"
     /\ RequestedKeys \subseteq DOMAIN config
     /\ config["timeout"] >= 0
     /\ quiet)
    => /\ \A i \in 1..Len(outcomes) :
            outcomes[i].kind = "aborted" =>
                /\ outcomes[i].started
                /\ outcomes[i].at - start_time >= config["timeout"]
                /\ outcomes[i].at - start_time <= config["timeout"] + TickPeriod
                /\ "reached_goal" \in DOMAIN outcomes[i].result
                /\ ~outcomes[i].result.reached_goal
       /\ pc = "done" => (Has("aborted") /\ ~Has("succeeded"))

\* C6: with a negative timeout the loop is never left through its
\* condition: lines 185-189 are not reached, set_aborted(result) is not
\* called, and a run that returns has returned from a tick whose check
\* held, preempt request or not.
C6_NegativeTimeoutNeverExpires ==
    (started /\ self.timeout < 0)
    => /\ pc \notin {"fail", "abort"}
       /\ ufRet # "final"
       /\ ~HasLine(189)
       /\ pc = "done" => (Last.line = 177 /\ checkHeld)

\* A negative timeout, time has passed, a preempt request was seen in
\* this tick, the check failed and the loop goes on.
C6_Witness ==
    /\ started
    /\ self.timeout < 0
    /\ now - start_time > 0
    /\ preemptInTick
    /\ pc = "command"

AfterPreemptCheck ==
    \/ pc \in {"check_state", "command", "sleep"}
    \/ (pc \in {"uf_position", "uf_effort", "uf_stalled", "uf_reached"}
        /\ ufRet = "loop")

\* C7: in a tick stop() is called once if the preempt request was seen
\* and not at all otherwise; and when the run has returned, set_succeeded
\* was called iff some tick's check held, and set_aborted iff the timeout
\* expired.
C7_PreemptNeutral ==
    /\ AfterPreemptCheck => stopsInTick = (IF preemptInTick THEN 1 ELSE 0)
    /\ pc = "done" =>
          /\ Has("succeeded") <=> checkHeld
          /\ Has("aborted") <=> ~(\/ now - start_time < self.timeout
                                  \/ self.timeout < 0)

C9_MissingKeyTolerated ==
    ~(RequestedKeys \subseteq DOMAIN config)
    => /\ pc # "raised"
       /\ pc \notin {"idle", "check_error", "get_params"}
             => self = InitSelf(type)

\* C10: a suction goal whose loop ran while the actuator reported
\* gripping throughout ends succeeded, with reached_goal equal to the
\* gripping signal.
C10_SuctionGripping ==
    (type = "suction" /\ gripAll /\ tick >= 1 /\ pc = "done")
    => /\ Last.kind = "succeeded"
       /\ Last.result.reached_goal = gGripping

\* The snapshot has just been recomputed in full and nothing it depends
\* on but the actuator's state can have changed since.
SnapshotFresh == pc \in {"record_start", "check_state", "abort"}

\* C11: every snapshot computed for an electric gripper is consistent
\* with one actuator state: stalled is (effort > moving force) and
\* reached_goal is (|position - target| < dead band) for the position and
\* effort the snapshot itself carries.
C11_ConsistentSnapshot ==
    (type = "electric" /\ SnapshotFresh)
    => /\ feedback.stalled = (feedback.effort > gParams.moving_force)
       /\ feedback.reached_goal =
              (Abs(feedback.position - position) < self.dead_band)

\* C16: the result delivered with set_succeeded for an electric goal has
\* reached_goal or stalled true.
C16_SucceededResultConverged ==
    \A i \in 1..Len(outcomes) :
        (type = "electric" /\ outcomes[i].kind = "succeeded")
        => (outcomes[i].result.reached_goal \/ outcomes[i].result.stalled)

\* C17 as stated: the result delivered by the set_aborted of the timeout
\* exit (line 189) has neither reached_goal nor stalled true.
C17_AbortedNotConverged ==
    \A i \in 1..Len(outcomes) :
        outcomes[i].line = 189
        => (~outcomes[i].result.reached_goal /\ ~outcomes[i].result.stalled)

\* C17 amended: the result delivered by the set_aborted of the timeout
\* exit has neither reached_goal nor stalled true when the actuator has
\* met no convergence condition since the loop started.
C17_QuietAbortNotConverged ==
    \A i \in 1..Len(outcomes) :
        (outcomes[i].line = 189 /\ quiet)
        => (~outcomes[i].result.reached_goal /\ ~outcomes[i].result.stalled)

\* An electric goal timed out after at least one tick with the actuator
\* away from the target throughout.
C17_Witness ==
    /\ pc = "done"
    /\ type = "electric"
    /\ Last.line = 189
    /\ quiet
    /\ tick >= 1
    /\ Abs(gPos - position) >= self.dead_band

InUpdateFeedback ==
    pc \in {"uf_position", "uf_effort", "uf_stalled", "uf_reached"}

\* C12: a call of _update_feedback made when the actuator's state, the
\* target and the parameters are what they were when the previous call
\* began leaves every field of the snapshot as that call left it, for
\* both gripper types.
C12_UpdateFeedbackIdempotent ==
    [][((sinceCall \in {"stable", "twice"} /\ pc = "uf_position")
        \/ (sinceCall = "second" /\ InUpdateFeedback))
       => feedback' = feedback]_vars

\* The call of a second tick has run to its end on the actuator state the
\* call of the first tick saw, with a snapshot that is not the empty one.
C12_Witness ==
    /\ sinceCall = "twice"
    /\ pc = "check_state"
    /\ tick >= 2
    /\ feedback.effort > 0
    /\ feedback.position > 0

IsPrefix(a, b) == Len(a) <= Len(b) /\ a = SubSeq(b, 1, Len(a))

\* What a tick whose check fails does, in order.
FullTick ==
    (IF preemptInTick THEN << <<"stop", 0>> >> ELSE << >>)
    \o << <<"feedback", 0>>, <<"check", 0>>, <<"command", goal.position>>,
          <<"publish", 0>>, <<"sleep", 0>> >>

\* C13: a tick does, in this order, stop() if a preempt request is seen,
\* the feedback recompute, the check and, when the check fails, one
\* position command to the goal position, one publication and the sleep;
\* when the check holds it ends with the check.
C13_TickOrder ==
    /\ IsPrefix(tickLog, FullTick)
    /\ pc = "command" => tickLog = SubSeq(FullTick, 1, Len(FullTick) - 3)
    /\ pc = "sleep" => tickLog = SubSeq(FullTick, 1, Len(FullTick) - 1)
    /\ (tick >= 1 /\ (pc \in {"loop", "fail", "abort"} \/ ufRet = "final"))
          => tickLog = FullTick
    /\ (pc = "done" /\ Last.kind = "succeeded")
          => tickLog = SubSeq(FullTick, 1, Len(FullTick) - 3)

\* A tick that saw the preempt request has stopped the gripper and then
\* commanded it towards the target again.
C13_Witness ==
    /\ pc = "loop"
    /\ tick >= 1
    /\ preemptInTick
    /\ tickLog = FullTick
    /\ tickLog[1] = <<"stop", 0>>

\* C14: for an electric goal set_parameters, with the configured dead
\* zone, velocity, moving force and holding force, comes first and
\* set_moving_force(effective effort) second, both before the loop, hence
\* before any command or check; in the loop the gripper's moving_force is
\* the effective effort and its other parameters the configured ones.
C14_SetupOrder ==
    type = "electric" =>
        /\ ~started => (nCmd = 0 /\ tick = 0 /\ Len(gripperCalls) <= 1)
        /\ Len(gripperCalls) >= 1 =>
              /\ gripperCalls[1][1] = "set_parameters"
              /\ gripperCalls[1][2] =
                    [dead_zone |-> config["goal"],
                     velocity |-> config["velocity"],
                     moving_force |-> config["moving_force"],
                     holding_force |-> config["holding_force"]]
        /\ started =>
              /\ Len(gripperCalls) = 2
              /\ gripperCalls[2][1] = "set_moving_force"
              /\ gripperCalls[2][2] = EffectiveEffort(goal.max_effort)
              /\ gParams =
                    [dead_zone |-> config["goal"],
                     velocity |-> config["velocity"],
                     moving_force |-> EffectiveEffort(goal.max_effort),
                     holding_force |-> config["holding_force"]]

\* In the loop the gripper's moving force is the effective effort and
\* differs from the configured one.
C14_Witness ==
    /\ type = "electric"
    /\ pc = "command"
    /\ gParams.moving_force = EffectiveEffort(goal.max_effort)
    /\ gParams.moving_force # config["moving_force"]

\* C15: a goal that has reached its loop has read the configuration once,
\* and the timeout and dead band it holds are those the configuration had
\* at that read, whatever an earlier goal held and whatever the
\* configuration has become since.
C15_ParametersOfThisGoal ==
    started =>
        /\ Len(cfgReads) = 1
        /\ self.timeout = cfgReads[1]["timeout"]
        /\ type = "electric" => self.dead_band = cfgReads[1]["goal"]

\* The second goal is in its loop with a timeout and a dead band that
\* differ from those of the first goal and from those the configuration
\* holds by now.
C15_Witness ==
    /\ goalNo = 2
    /\ started
    /\ pc = "check_state"
    /\ Len(prevCfg) = 1
    /\ prevCfg[1]["timeout"] # self.timeout
    /\ prevCfg[1]["goal"] # self.dead_band
    /\ config["timeout"] # self.timeout
    /\ config["goal"] # self.dead_band

\* C18: a goal whose configured timeout is not negative ends with a
\* terminal outcome and the handler returns, whatever the actuator and the
\* preempt requests do.
C18_EveryGoalTerminates ==
    (/\ pc = "check_error"
     /\ "timeout" \in DOMAIN config
     /\ config["timeout"] >= 0)
        ~> (pc = "done" /\ Len(outcomes) >= 1)

====
